---- MODULE Spec2Model ----
(***************************************************************************)
(* go-chi/httpvcr: an http.RoundTripper that records the exchanges made    *)
(* through it into a cassette file and replays them from that file.        *)
(*                                                                         *)
(* The session object (HTTPVCR: New, Start, Stop, FilterResponseBody,      *)
(* RoundTrip) is modelled from src/unnamed/part_000:136-289, the cassette, *)
(* the request snapshot and the episode matcher from src/util_test.go:     *)
(* 48-214, the response snapshot from src/response.go.  The cassette's     *)
(* episodeMatcher is a DefaultEpisodeMatcher.                              *)
(*                                                                         *)
(* A byte slice is a record [isNil, bytes]: Go tells a nil slice from an   *)
(* empty one (reflect.DeepEqual, encoding/json), so the model does too.    *)
(* Cassette.Episodes and the matcher's episodes are only ever measured     *)
(* with len(), so they are plain sequences.                                *)
(***************************************************************************)
EXTENDS Integers, Sequences, FiniteSets, TLC

VARIABLES
    mode,               \* v.mode, per session object
    ctx,                \* v.ctx: CtxNil before the first Start
    originalTransport,  \* v.originalTransport
    Episodes,           \* v.Cassette.Episodes
    matcher,            \* v.Cassette.episodeMatcher.episodes
    FilterMap,          \* v.FilterMap
    RequestModifier,    \* v.RequestModifier: TRUE when requestMod is set, FALSE when nil
    options,            \* v.options.HTTPDefaultOverride
    DefaultTransport,   \* http.DefaultTransport (process-wide)
    files,              \* the file system under fixtures/vcr, by cassette name
    dir,                \* whether the directory fixtures/vcr exists
    consumed,           \* history: episodes matched since the replay session loaded its
                        \* cassette; -1 outside such a session
    history,            \* which history this behaviour keeps: "none", "calls"
                        \* (last, and whether each operation ran alone) or "tape"
                        \* (tape, played and serial as well)
    tape,               \* history: the calls answered in the last recording session
    played,             \* history: how far the replay session has repeated the tape
    serial,             \* history, kept with the tape: no goroutine has run so far
                        \* while another was inside an operation
    callers,            \* the goroutines inside Start, Stop and RoundTrip: where
                        \* each one is and the locals it holds
    last                \* history: the operation that returned in the last step and
                        \* what its caller observed

vars == <<mode, ctx, originalTransport, Episodes, matcher, FilterMap,
          RequestModifier, options, DefaultTransport, files, dir, consumed,
          history, tape, played, serial, callers, last>>

----------------------------------------------------------------------------
(* Bounds *)

\* Longest episode sequence a recording session may build.
MaxEpisodes == 2

\* Longest episode sequence a session builds or loads where two sessions
\* run in one process.
MaxEpisodesTwo == 1

\* Deepest nesting of RoundTrip calls followed on one goroutine: a session
\* whose original transport is a session calls that session's RoundTrip.
MaxDepth == 3

----------------------------------------------------------------------------
(* Program constants and the values of the model *)

ModeStopped == 0
ModeRecord == 1
ModeReplay == 2

Modes == {ModeStopped, ModeRecord, ModeReplay}

\* The session objects of the process; cassette{name: s} for session s.
Sessions == {"a", "b"}

\* What http.DefaultTransport and v.originalTransport can hold.
RealTransport == "real"
NoTransport == "nil"

\* v.ctx: nil, live under a parent that cannot be cancelled
\* (context.Background()), live under a parent its owner may cancel, live
\* under a parent with a deadline, cancelled (Err() is context.Canceled),
\* or past the deadline (Err() is context.DeadlineExceeded).
CtxNil == "nil"
CtxLive == "live"
CtxCancellable == "cancellable"
CtxTimed == "timed"
CtxCanceled == "canceled"
CtxExpired == "deadline exceeded"

\* The ctx argument of Start: context.Background(), a context its owner
\* may cancel, a cancelled one, one with a deadline ahead, one whose
\* deadline has passed.
Parents == {"background", "cancellable", "canceled", "deadline", "expired"}

NilBytes == [isNil |-> TRUE, bytes |-> <<>>]
Bytes(b) == [isNil |-> FALSE, bytes |-> b]

\* FilterResponseBody("s", "d"), the secret-key -> dummy-key filter of the tests.
FilterOriginal == <<"s">>
FilterReplacement == <<"d">>
EmptyFilterMap == [o \in {} |-> <<>>]

\* requestMod of the tests rewrites the body of requests to ModURL: "Hey
\* Buddy" (the token "h") becomes "moddedString" (the token "m").
ModURL == "/modme"
ModFrom == <<"h">>
ModTo == <<"m">>

Req(m, u, b) == [Method |-> m, URL |-> u, Body |-> b]

\* The request a caller of the matcher's specification issues while the
\* session records, and the requests it issues afterwards: they differ from
\* the recorded one in the URL, in the body, in the method and the body,
\* and in all three.
Recorded == { Req("POST", "/", Bytes(<<"d">>)) }
Requests ==
    Recorded \cup
    { Req("POST", ModURL, Bytes(<<"d">>)),
      Req("POST", "/", Bytes(<<"s">>)),
      Req("GET", "/", NilBytes),
      Req("GET", ModURL, NilBytes) }

Header == [Test |-> <<"yes">>]

LiveResponse(status, code, proto, body) ==
    [Status |-> status, StatusCode |-> code, Proto |-> proto, Header |-> Header,
     ContentLength |-> Len(body), Body |-> Bytes(body)]

\* What the real transport answers.
Responses ==
    { LiveResponse("200 OK", 200, "HTTP/1.1", <<"x">>),
      LiveResponse("404 Not Found", 404, "HTTP/1.1", <<>>) }

NoResponse ==
    [Status |-> "", StatusCode |-> 0, Proto |-> "", Header |-> Header,
     ContentLength |-> 0, Body |-> NilBytes]

\* The outcome of one call of the real transport: a response or its error.
NetworkError == "network error"
NetOutcomes ==
    { [err |-> "", resp |-> r] : r \in Responses }
        \cup { [err |-> NetworkError, resp |-> NoResponse] }

----------------------------------------------------------------------------
(* Request snapshot: newVCRRequest *)

RECURSIVE Count(_, _)
\* bytes.Count(s, old) for a non-empty old: non-overlapping occurrences.
Count(s, old) ==
    IF Len(s) < Len(old) THEN 0
    ELSE IF SubSeq(s, 1, Len(old)) = old
         THEN 1 + Count(SubSeq(s, Len(old) + 1, Len(s)), old)
         ELSE Count(Tail(s), old)

RECURSIVE ReplaceAll(_, _, _)
\* The bytes of bytes.Replace(s, old, new, -1): left to right, non-overlapping.
ReplaceAll(s, old, new) ==
    IF Len(s) < Len(old) THEN s
    ELSE IF SubSeq(s, 1, Len(old)) = old
         THEN new \o ReplaceAll(SubSeq(s, Len(old) + 1, Len(s)), old, new)
         ELSE <<s[1]>> \o ReplaceAll(Tail(s), old, new)

\* bytes.Replace(body, original, replacement, -1).  With no occurrence the
\* result is append([]byte(nil), body...), which is nil for an empty body.
bytesReplace(body, original, replacement) ==
    [isNil |-> Count(body.bytes, original) = 0 /\ Len(body.bytes) = 0,
     bytes |-> ReplaceAll(body.bytes, original, replacement)]

\* The orders in which `range filterMap` can visit the keys.
Orders(filterMap) ==
    LET D == DOMAIN filterMap
    IN  { o \in [1..Cardinality(D) -> D] :
            \A i, j \in 1..Cardinality(D) : i # j => o[i] # o[j] }

RECURSIVE applyFilters(_, _, _)
\* for original, replacement := range filterMap { body = bytes.Replace(...) }
applyFilters(body, filterMap, order) ==
    IF order = <<>> THEN body
    ELSE applyFilters(bytesReplace(body, Head(order), filterMap[Head(order)]),
                      filterMap, Tail(order))

\* newVCRRequest: the body is read whole (ioutil.ReadAll gives a non-nil
\* slice) and filtered; a request without body keeps a nil body.
newVCRRequest(request, filterMap, order) ==
    [Method |-> request.Method,
     URL |-> request.URL,
     Body |-> IF request.Body.isNil THEN NilBytes
              ELSE applyFilters(Bytes(request.Body.bytes), filterMap, order)]

\* strings.Replace(s, old, new, 1): the first occurrence only.
ReplaceFirst(s, old, new) ==
    IF Len(s) < Len(old) THEN s
    ELSE IF \E i \in 1..(Len(s) - Len(old) + 1) : SubSeq(s, i, i + Len(old) - 1) = old
         THEN LET i == CHOOSE k \in 1..(Len(s) - Len(old) + 1) :
                          /\ SubSeq(s, k, k + Len(old) - 1) = old
                          /\ \A j \in 1..(k - 1) : SubSeq(s, j, j + Len(old) - 1) # old
              IN  SubSeq(s, 1, i - 1) \o new \o SubSeq(s, i + Len(old), Len(s))
         ELSE s

\* requestMod of the tests: on a request to ModURL the body is rewritten
\* with strings.Replace(body, ModFrom, ModTo, 1); a request without body is
\* left alone.
requestMod(request) ==
    IF request.URL = ModURL /\ ~request.Body.isNil
    THEN [request EXCEPT !.Body = Bytes(ReplaceFirst(request.Body.bytes, ModFrom, ModTo))]
    ELSE request

----------------------------------------------------------------------------
(* Response snapshot: newVCRResponse, httpResponse *)

newVCRResponse(response) ==
    [Status |-> response.Status,
     StatusCode |-> response.StatusCode,
     Header |-> response.Header,
     ContentLength |-> response.ContentLength,
     Body |-> IF response.Body.isNil THEN NilBytes ELSE Bytes(response.Body.bytes)]

\* The body is a fresh buffer over the stored bytes; the protocol is fixed.
httpResponse(vr) ==
    [Status |-> vr.Status,
     StatusCode |-> vr.StatusCode,
     Proto |-> "HTTP/1.0",
     Header |-> vr.Header,
     ContentLength |-> vr.ContentLength,
     Body |-> Bytes(vr.Body.bytes)]

----------------------------------------------------------------------------
(* Episode matcher: DefaultEpisodeMatcher.MatchEpisode *)

NoMoreEpisodes == "httpvcr: no more episodes!"
EpisodeMismatch == "httpvcr: problem with episode"

NoDetail == [method |-> "", url |-> "", field |-> "", expected |-> "", actual |-> ""]

\* panicEpisodeMismatch(request, field, expected, actual)
panicEpisodeMismatch(request, field, expected, actual) ==
    [method |-> request.Method, url |-> request.URL, field |-> field,
     expected |-> expected, actual |-> actual]

NoEpisode ==
    [Request |-> newVCRRequest(Req("", "", NilBytes), EmptyFilterMap, <<>>),
     Response |-> newVCRResponse(NoResponse)]

Matched_Keep(e, rest) ==
    [panic |-> "", detail |-> NoDetail, episode |-> e, episodes |-> <<e>> \o rest]

\* m.episodes = m.episodes[1:]; return &e, nil
Matched(e, rest) == [panic |-> "", detail |-> NoDetail, episode |-> e, episodes |-> rest]
MatchPanic_Consumes(msg, detail, episodes) ==
    [panic |-> msg, detail |-> detail, episode |-> NoEpisode,
     episodes |-> IF episodes = <<>> THEN <<>> ELSE Tail(episodes)]

\* A panic of MatchEpisode leaves m.episodes as it found it.
MatchPanic(msg, detail, episodes) ==
    [panic |-> msg, detail |-> detail, episode |-> NoEpisode, episodes |-> episodes]

MatchEpisode_URLFirst(episodes, request) ==
    IF Len(episodes) = 0 THEN MatchPanic(NoMoreEpisodes, NoDetail, episodes)
    ELSE LET e == episodes[1]
             expected == e.Request
         IN  IF expected.URL # request.URL
             THEN MatchPanic(EpisodeMismatch,
                      panicEpisodeMismatch(request, "URL", expected.URL, request.URL),
                      episodes)
             ELSE IF expected.Method # request.Method
             THEN MatchPanic(EpisodeMismatch,
                      panicEpisodeMismatch(request, "Method", expected.Method, request.Method),
                      episodes)
             ELSE IF expected.Body # request.Body
             THEN MatchPanic(EpisodeMismatch,
                      panicEpisodeMismatch(request, "Body", expected.Body.bytes, request.Body.bytes),
                      episodes)
             ELSE Matched(e, Tail(episodes))

\* The first check of MatchEpisode that fails decides the panic; a match
\* returns m.episodes[0] and leaves m.episodes[1:].
MatchEpisode(episodes, request) ==
    IF Len(episodes) = 0 THEN MatchPanic(NoMoreEpisodes, NoDetail, episodes)
    ELSE LET e == episodes[1]
             expected == e.Request
         IN  IF expected.Method # request.Method
             THEN MatchPanic(EpisodeMismatch,
                      panicEpisodeMismatch(request, "Method", expected.Method, request.Method),
                      episodes)
             ELSE IF expected.URL # request.URL
             THEN MatchPanic(EpisodeMismatch,
                      panicEpisodeMismatch(request, "URL", expected.URL, request.URL),
                      episodes)
             ELSE IF expected.Body # request.Body
             THEN MatchPanic(EpisodeMismatch,
                      panicEpisodeMismatch(request, "Body", expected.Body.bytes, request.Body.bytes),
                      episodes)
             ELSE Matched(e, Tail(episodes))

----------------------------------------------------------------------------
(* Cassette file: Exists, write, read *)

CannotWrite == "httpvcr: cannot write cassette file!"
CannotParse == "httpvcr: cannot parse json!"

\* What the path fixtures/vcr/<name>.json holds: nothing, a directory, bytes
\* that are not JSON, or a JSON document.
Absent == [kind |-> "absent", doc |-> <<>>]
Directory == [kind |-> "dir", doc |-> <<>>]
Garbage == [kind |-> "garbage", doc |-> <<>>]
JsonFile(doc) == [kind |-> "json", doc |-> doc]

\* encoding/json on a []byte: null for a nil slice, base64 text otherwise.
EncodeBytes(b) == IF b.isNil THEN <<"null">> ELSE <<"base64", b.bytes>>
DecodeBytes(j) == IF j[1] = "null" THEN NilBytes ELSE Bytes(j[2])

EncodeEpisode(e) ==
    [Request |-> [Method |-> e.Request.Method, URL |-> e.Request.URL,
                  Body |-> EncodeBytes(e.Request.Body)],
     Response |-> [Status |-> e.Response.Status,
                   StatusCode |-> e.Response.StatusCode,
                   ContentLength |-> e.Response.ContentLength,
                   Header |-> e.Response.Header,
                   Body |-> EncodeBytes(e.Response.Body)]]

DecodeEpisode(j) ==
    [Request |-> [Method |-> j.Request.Method, URL |-> j.Request.URL,
                  Body |-> DecodeBytes(j.Request.Body)],
     Response |-> [Status |-> j.Response.Status,
                   StatusCode |-> j.Response.StatusCode,
                   Header |-> j.Response.Header,
                   ContentLength |-> j.Response.ContentLength,
                   Body |-> DecodeBytes(j.Response.Body)]]

\* json.Marshal(c): the exported field Episodes (the name is not exported).
Marshal(episodes) == [i \in 1..Len(episodes) |-> EncodeEpisode(episodes[i])]
\* json.Unmarshal(jsonData, c)
Unmarshal(doc) == [i \in 1..Len(doc) |-> DecodeEpisode(doc[i])]

\* os.Stat succeeds on whatever occupies the path, a directory included.
Exists(file) == file.kind # "absent"

\* ioutil.WriteFile fails when a directory occupies the path and when the
\* directory fixtures/vcr is not there.
WriteFails(file, there) == file.kind = "dir" \/ ~there

\* ioutil.ReadFile's error is dropped, so a directory reads as no bytes, and
\* json.Unmarshal rejects no bytes as it rejects malformed ones.
ReadFails(file) == file.kind # "json"

----------------------------------------------------------------------------
(* The session: what Start, Stop and RoundTrip decide *)

AlreadyStarted == "httpvcr: session already started!"
Stopped == "httpvcr: stopped"
NilDereference == "runtime error: invalid memory address or nil pointer dereference"
ConcurrentMap == "fatal error: concurrent map iteration and map write"
IndexOutOfRange == "runtime error: index out of range [0] with length 0"
SliceOutOfRange == "runtime error: slice bounds out of range [1:0]"

\* The state Start, Stop and RoundTrip read and write.
State ==
    [mode |-> mode, ctx |-> ctx, originalTransport |-> originalTransport,
     Episodes |-> Episodes, matcher |-> matcher,
     DefaultTransport |-> DefaultTransport, files |-> files, dir |-> dir,
     consumed |-> consumed, tape |-> tape, played |-> played]

\* context.WithCancel(ctx)
WithCancel(parent) ==
    CASE parent = "background" -> CtxLive
      [] parent = "cancellable" -> CtxCancellable
      [] parent = "canceled" -> CtxCanceled
      [] parent = "deadline" -> CtxTimed
      [] parent = "expired" -> CtxExpired

\* v.ctxCancel(): a context that is past its deadline keeps that error.
ctxCancel(c) == IF c = CtxExpired THEN CtxExpired ELSE CtxCanceled

StartMode_Inverted(file) == IF Exists(file) THEN ModeRecord ELSE ModeReplay

\* Start's choice of mode: replay when the cassette file exists.
StartMode(file) == IF Exists(file) THEN ModeReplay ELSE ModeRecord

StartRefused_Never(m) == FALSE

\* Start refuses a session whose mode is not ModeStopped.
StartRefused(m) == m # ModeStopped

ParseFailed_RollsBack(st, v) ==
    [st EXCEPT !.mode[v] = ModeStopped,
               !.DefaultTransport = st.originalTransport[v]]

\* cassette.read panics on bytes that do not parse: what Start has
\* assigned by then stays assigned.
ParseFailed(st, v) == st

MatcherInit_KeepsQueue(old, episodes) == old

\* DefaultEpisodeMatcher.Init: m.episodes = episodes
MatcherInit(old, episodes) == episodes

StopWrites_Always(m) == TRUE

\* Stop writes the cassette only when the session records.
StopWrites(m) == m = ModeRecord

\* cassette.write, its ioutil.WriteFile: the file holds the marshalled
\* cassette, or write panics.
write(st, v, jsonData) ==
    IF WriteFails(st.files[v], st.dir) THEN [st |-> st, panic |-> CannotWrite]
    ELSE [st |-> [st EXCEPT !.files[v] = JsonFile(jsonData)], panic |-> ""]

\* What a call of a transport gives: a response, an error, a panic or the
\* death of the process.
Result(kind, msg, detail, resp) ==
    [kind |-> kind, msg |-> msg, detail |-> detail, resp |-> resp]

\* What the real transport gives for the outcome `net`.
RealResult(net) ==
    IF net.err # "" THEN Result("error", net.err, NoDetail, NoResponse)
    ELSE Result("response", "", NoDetail, net.resp)

\* The history kept in this behaviour.
Taping == history = "tape"
Watching == history # "none"

\* The history of the round-trip claim: the calls answered while recording,
\* and how far a replay session has repeated them.
Taped(st, v, request, resp) ==
    IF Taping THEN [st EXCEPT !.tape[v] = Append(@, [req |-> request, resp |-> resp])]
    ELSE st
Played(st, v, request) ==
    LET p == st.played[v]
    IN  IF Taping
        THEN [st EXCEPT !.played[v] =
                IF p.same /\ p.n < Len(st.tape[v]) /\ st.tape[v][p.n + 1].req = request
                THEN [same |-> TRUE, n |-> p.n + 1]
                ELSE [same |-> FALSE, n |-> p.n]]
        ELSE st

Records_AlsoReplay(m) == m \in {ModeRecord, ModeReplay}

\* RoundTrip records when the mode is ModeRecord and matches otherwise.
Records(m) == m = ModeRecord

SnapshotSource_AfterHook(request, modified) == modified

\* RoundTrip's first statement takes the snapshot: of the request as the
\* caller passed it, not as the hook leaves it.
SnapshotSource(request, modified) == request

HookRuns_RecordOnly(set, m) == set /\ m = ModeRecord

\* RoundTrip past the context and mode checks: if v.RequestModifier != nil
HookRuns(set, m) == set

RealCallFailed_Never(inner) == FALSE

\* RoundTrip while recording: if err != nil { return nil, err }
RealCallFailed(inner) == inner.kind # "response"

ReplayFinished_QueueEmpty(episodes, queue) == Len(queue) = 0

\* RoundTrip stops a replaying session whose Cassette.Episodes is empty.
ReplayFinished(episodes, queue) == Len(episodes) = 0

----------------------------------------------------------------------------
(* Goroutines.  RoundTrip takes no lock, so between two of its accesses of  *)
(* the session's fields another goroutine may run, one inside Start or     *)
(* Stop included; Start and Stop hold v.mu and exclude only each other.    *)
(* Each write of a field of the session by Start, Stop and RoundTrip, and  *)
(* each read of one by RoundTrip, is a step of its own; Start's and Stop's *)
(* reads of v.mode, which only they write, go with their first step.       *)

\* The goroutines that call RoundTrip.
Callers == {"c1", "c2"}

\* The goroutine inside v.Start or v.Stop.  Each session has its own v.mu,
\* which admits one goroutine at a time, so the model names that goroutine
\* after the session; a RoundTrip that stops its session (part_000:280)
\* runs its Stop here too, `who` naming the caller.
Holder(v) == v

Goroutines == Callers \cup { Holder(v) : v \in Sessions }

NoRequest == Req("", "", NilBytes)

\* The locals of one RoundTrip that has just been called: the session, the
\* request as it was passed and as the hook leaves it, the snapshot (not
\* taken yet), the episode, the slice read for an append or a re-slice,
\* and v.FilterMap as it was when the call began.
Frame(v, request) ==
    [pc |-> "snapshot", v |-> v, request |-> request, live |-> request,
     vcrReq |-> NoRequest, records |-> FALSE, e |-> NoEpisode, q |-> <<>>,
     fm |-> FilterMap[v]]

\* A goroutine outside RoundTrip.  A goroutine inside holds one frame for
\* each RoundTrip under way, the original transport of a session being
\* another session's RoundTrip at times.  History: the mode the outermost
\* RoundTrip last read (at its start, if it has read none), what the real
\* transport was sent, the requests handed to the hook, whether a Stop
\* inside the call wrote the cassette, and whether no other goroutine has
\* run since the call began.
IdleCaller ==
    [stack |-> <<>>, mode |-> ModeStopped, sent |-> <<>>, hooked |-> <<>>,
     wrote |-> FALSE, alone |-> TRUE]

\* v.mu is free.  `who` is the caller of the Start or Stop under way: a
\* goroutine of the program, or the goroutine whose RoundTrip stops the
\* session; `tmp` holds the argument evaluated for episodeMatcher.Init,
\* `jsonData` what json.Marshal gave cassette.write.
IdleHolder(v) ==
    [pc |-> "idle", who |-> Holder(v), mode |-> ModeStopped, tmp |-> <<>>,
     jsonData |-> <<>>, wrote |-> FALSE, alone |-> TRUE]

Busy(g) == IF g \in Callers THEN callers[g].stack # <<>> ELSE callers[g].pc # "idle"

\* No goroutine is inside Start, Stop or RoundTrip.
Still == \A g \in Goroutines : ~Busy(g)

\* The frame a goroutine is executing, and the statement it is at.
Top(c) == callers[c].stack[Len(callers[c].stack)]
At(c, pc) == callers[c].stack # <<>> /\ Top(c).pc = pc
Pop(stack) == SubSeq(stack, 1, Len(stack) - 1)
SetTop(stack, frame) == [stack EXCEPT ![Len(stack)] = frame]

\* The goroutines after a step: those of `moved` are as it says, and any
\* other goroutine inside an operation has had a goroutine run meanwhile.
Moved(moved) ==
    [g \in Goroutines |->
        IF g \in DOMAIN moved THEN moved[g]
        ELSE IF Busy(g) THEN [callers[g] EXCEPT !.alone = FALSE]
        ELSE callers[g]]

\* The goroutines as the behaviour keeps them: with their history, or
\* without it.
Kept(cs) ==
    IF Watching THEN cs
    ELSE [g \in Goroutines |->
            IF g \in Callers
            THEN [cs[g] EXCEPT !.mode = ModeStopped, !.sent = <<>>, !.hooked = <<>>,
                               !.wrote = FALSE, !.alone = TRUE]
            ELSE [cs[g] EXCEPT !.mode = ModeStopped, !.wrote = FALSE, !.alone = TRUE]]

\* What the caller of an operation observed.
Observed(op, v, m, request, r, sent, hooked, wrote, alone) ==
    [op |-> op, v |-> v, mode |-> m, request |-> request, kind |-> r.kind,
     msg |-> r.msg, detail |-> r.detail, resp |-> r.resp, sent |-> sent,
     hooked |-> hooked, wrote |-> wrote, alone |-> alone]

Ok == Result("ok", "", NoDetail, NoResponse)
Panic(msg) == Result("panic", msg, NoDetail, NoResponse)

\* No operation returned in the last step.
Nothing == Observed("", "a", ModeStopped, NoRequest, Ok, <<>>, <<>>, FALSE, TRUE)

\* The operations so far ran one after the other, the goroutines being cs
\* after the step.
Serial(cs) ==
    IF Taping THEN serial /\ \A g \in Goroutines : cs[g].alone
    ELSE TRUE

Commit(st) ==
    /\ mode' = st.mode
    /\ ctx' = st.ctx
    /\ originalTransport' = st.originalTransport
    /\ Episodes' = st.Episodes
    /\ matcher' = st.matcher
    /\ DefaultTransport' = st.DefaultTransport
    /\ files' = st.files
    /\ dir' = st.dir
    /\ consumed' = IF Watching THEN st.consumed ELSE consumed
    /\ tape' = st.tape
    /\ played' = st.played

\* A statement after which its goroutine is still inside its operation.
Goes(st, moved) ==
    /\ Commit(st)
    /\ callers' = Kept(Moved(moved))
    /\ serial' = Serial(Moved(moved))
    /\ last' = Nothing
    /\ UNCHANGED <<FilterMap, RequestModifier, options, history>>

\* A statement with which an operation returns or panics.
Ends(st, moved, observed) ==
    /\ Commit(st)
    /\ callers' = Kept(Moved(moved))
    /\ serial' = Serial(Moved(moved))
    /\ last' = IF Watching THEN observed ELSE Nothing
    /\ UNCHANGED <<FilterMap, RequestModifier, options, history>>

RECURSIVE Settle(_, _, _)
\* The result r reaches the frame on top of `stack`, which waits for its
\* original transport.  A panic unwinds every frame (nothing recovers); a
\* stopped session returns what it got (part_000:256); a recording one
\* returns an error (265-267) or keeps the response for its episode
\* (268-270).
Settle(st, stack, r) ==
    IF stack = <<>> \/ r.kind \in {"panic", "fatal"}
    THEN [st |-> st, stack |-> <<>>]
    ELSE LET f == stack[Len(stack)]
             vcrRes == newVCRResponse(r.resp)
         IN  IF f.pc = "pass" \/ RealCallFailed(r)
             THEN Settle(st, Pop(stack), r)
             ELSE [st |-> Taped(st, f.v, f.request, httpResponse(vcrRes)),
                   stack |-> SetTop(stack, [f EXCEPT !.pc = "append",
                                   !.e = [Request |-> f.vcrReq, Response |-> vcrRes]])]

\* Goroutine c, now `me`, has the result r for the frame on top of `stack`;
\* `moved` says what becomes of the goroutines that moved with it.
Arrive(c, st, me, stack, r, moved) ==
    LET s == Settle(st, stack, r)
    IN  IF s.stack = <<>>
        THEN Ends(s.st, (c :> IdleCaller) @@ moved,
                  Observed("RoundTrip", me.stack[1].v, me.mode, me.stack[1].request, r,
                           me.sent, me.hooked, me.wrote, me.alone))
        ELSE Goes(s.st, (c :> [me EXCEPT !.stack = s.stack]) @@ moved)

\* The frame on top of goroutine c's stack returns r.
Return(c, st, r) ==
    Arrive(c, st, callers[c], Pop(callers[c].stack), r, <<>>)

\* Goroutine c goes on in its frame.
Step(c, st, frame) ==
    Goes(st, c :> [callers[c] EXCEPT !.stack = SetTop(@, frame)])

\* v.Start or v.Stop returns or panics; the deferred v.mu.Unlock() runs.
\* A Stop called by RoundTrip (part_000:280) returns into RoundTrip's last
\* statement.
Unlock(st, op, v, r) ==
    LET h == callers[Holder(v)]
    IN  IF h.who = Holder(v)
        THEN Ends(st, Holder(v) :> IdleHolder(v),
                  Observed(op, v, h.mode, NoRequest, r, <<>>, <<>>, h.wrote, h.alone))
        ELSE LET me == [callers[h.who] EXCEPT !.wrote = h.wrote]
             IN  Arrive(h.who, st, me, Pop(me.stack),
                        IF r.kind = "panic" THEN r
                        ELSE Result("response", "", NoDetail,
                                    httpResponse(Top(h.who).e.Response)),
                        Holder(v) :> IdleHolder(v))

\* The goroutine inside v.Start or v.Stop goes on; the goroutine is `who`.
Holds(st, v, h) ==
    Goes(st, IF h.who = Holder(v) THEN Holder(v) :> h
             ELSE (Holder(v) :> h) @@ (h.who :> callers[h.who]))

\* Start: v.mu.Lock(), the check of v.mode, and
\* v.ctx, v.ctxCancel = context.WithCancel(ctx)
StartLock(v, parent) ==
    /\ callers[Holder(v)].pc = "idle"
    /\ LET h == [IdleHolder(v) EXCEPT
                    !.mode = mode[v],
                    !.alone = \A g \in Goroutines \ {Holder(v)} : ~Busy(g)]
       IN  IF StartRefused(mode[v])
           THEN Ends(State, Holder(v) :> IdleHolder(v),
                     Observed("Start", v, h.mode, NoRequest, Panic(AlreadyStarted),
                              <<>>, <<>>, FALSE, h.alone))
           ELSE Goes([State EXCEPT !.ctx[v] = WithCancel(parent)],
                     Holder(v) :> [h EXCEPT !.pc = "remember"])

\* Start: v.originalTransport = http.DefaultTransport
StartRemember(v) ==
    /\ callers[Holder(v)].pc = "remember"
    /\ Holds([State EXCEPT !.originalTransport[v] = DefaultTransport], v,
             [callers[Holder(v)] EXCEPT !.pc = "override"])

\* Start: http.DefaultTransport = v under HTTPDefaultOverride
StartOverride(v) ==
    /\ callers[Holder(v)].pc = "override"
    /\ Holds([State EXCEPT !.DefaultTransport = IF options[v] THEN v ELSE @], v,
             [callers[Holder(v)] EXCEPT !.pc = "choose"])

\* Start: v.Cassette.Exists() and the assignment of v.mode
StartChoose(v) ==
    /\ callers[Holder(v)].pc = "choose"
    /\ IF StartMode(files[v]) = ModeReplay
       THEN Holds([State EXCEPT !.mode[v] = ModeReplay,
                                !.played[v] = [same |-> TRUE, n |-> 0]], v,
                  [callers[Holder(v)] EXCEPT !.pc = "read"])
       ELSE Unlock([State EXCEPT !.mode[v] = ModeRecord, !.tape[v] = <<>>],
                   "Start", v, Ok)

\* cassette.read: ioutil.ReadFile and json.Unmarshal(jsonData, c), which
\* assigns c.Episodes
StartRead(v) ==
    /\ callers[Holder(v)].pc = "read"
    /\ IF ReadFails(files[v])
       THEN Unlock(ParseFailed(State, v), "Start", v, Panic(CannotParse))
       ELSE Holds([State EXCEPT !.Episodes[v] = Unmarshal(files[v].doc)], v,
                  [callers[Holder(v)] EXCEPT !.pc = "arg"])

\* cassette.read: the argument of c.episodeMatcher.Init(c.Episodes) is
\* evaluated ...
StartArg(v) ==
    /\ callers[Holder(v)].pc = "arg"
    /\ Holds(State, v, [callers[Holder(v)] EXCEPT !.pc = "init", !.tmp = Episodes[v]])

\* ... and Init assigns m.episodes.
StartInit(v) ==
    /\ callers[Holder(v)].pc = "init"
    /\ Unlock([State EXCEPT !.matcher[v] = MatcherInit(@, callers[Holder(v)].tmp),
                            !.consumed[v] = 0],
              "Start", v, Ok)

\* Stop: v.mu.Lock() and the check of v.mode; when the session records,
\* cassette.write begins: json.Marshal(c) and os.MkdirAll("fixtures/vcr").
\* The caller is a goroutine of the program, or a goroutine at RoundTrip's
\* v.Stop().
StopLock(v, who) ==
    /\ callers[Holder(v)].pc = "idle"
    /\ IF who = Holder(v) THEN TRUE ELSE At(who, "stop") /\ Top(who).v = v
    /\ LET h == [IdleHolder(v) EXCEPT
                    !.who = who, !.mode = mode[v],
                    !.alone = \A g \in Goroutines \ {Holder(v), who} : ~Busy(g)]
           moved == IF who = Holder(v) THEN <<>> ELSE who :> callers[who]
       IN  IF mode[v] = ModeStopped
           THEN IF who = Holder(v)
                THEN Ends(State, Holder(v) :> IdleHolder(v),
                          Observed("Stop", v, h.mode, NoRequest, Ok, <<>>, <<>>, FALSE,
                                   h.alone))
                ELSE Arrive(who, State, callers[who], Pop(callers[who].stack),
                            Result("response", "", NoDetail,
                                   httpResponse(Top(who).e.Response)),
                            Holder(v) :> IdleHolder(v))
           ELSE IF StopWrites(mode[v])
           THEN Goes([State EXCEPT !.dir = TRUE],
                     (Holder(v) :> [h EXCEPT !.pc = "write",
                                             !.jsonData = Marshal(Episodes[v])]) @@ moved)
           ELSE Goes(State, (Holder(v) :> [h EXCEPT !.pc = "restore"]) @@ moved)

\* cassette.write: ioutil.WriteFile, and the panic when it fails
StopWrite(v) ==
    /\ callers[Holder(v)].pc = "write"
    /\ LET w == write(State, v, callers[Holder(v)].jsonData)
       IN  IF w.panic # ""
           THEN Unlock(State, "Stop", v, Panic(w.panic))
           ELSE Holds(w.st, v, [callers[Holder(v)] EXCEPT !.pc = "restore",
                                                         !.jsonData = <<>>,
                                                         !.wrote = TRUE])

\* Stop: http.DefaultTransport = v.originalTransport under
\* HTTPDefaultOverride, when there is one
StopRestore(v) ==
    /\ callers[Holder(v)].pc = "restore"
    /\ Holds([State EXCEPT
                !.DefaultTransport =
                    IF options[v] /\ originalTransport[v] # NoTransport
                    THEN originalTransport[v] ELSE @], v,
             [callers[Holder(v)] EXCEPT !.pc = "switch"])

\* Stop: v.mode = ModeStopped
StopSwitch(v) ==
    /\ callers[Holder(v)].pc = "switch"
    /\ Holds([State EXCEPT !.mode[v] = ModeStopped, !.consumed[v] = -1], v,
             [callers[Holder(v)] EXCEPT !.pc = "cancel"])

\* Stop: v.ctxCancel()
StopCancel(v) ==
    /\ callers[Holder(v)].pc = "cancel"
    /\ Unlock([State EXCEPT !.ctx[v] = ctxCancel(@)], "Stop", v, Ok)

\* A client whose transport is v (the default client when v is
\* http.DefaultTransport) calls v.RoundTrip(request).
Enter(c, v, request) ==
    /\ ~Busy(c)
    /\ Goes(State, c :> [IdleCaller EXCEPT
                            !.stack = <<Frame(v, request)>>,
                            !.mode = mode[v],
                            !.alone = \A g \in Goroutines \ {c} : ~Busy(g)])

\* RoundTrip's first statement: vcrReq := newVCRRequest(request,
\* v.FilterMap).  The loop over the map runs without v.mu: of an entry
\* FilterResponseBody has stored since the call began the loop may or may
\* not take notice, and it visits the keys in any order.
TakeSnapshot(c) ==
    /\ At(c, "snapshot")
    /\ LET f == Top(c)
       IN  \E filterMap \in {f.fm, FilterMap[f.v]} :
           \E order \in Orders(filterMap) :
              Step(c, State,
                   [f EXCEPT
                      !.pc = "ctx",
                      !.fm = EmptyFilterMap,
                      !.vcrReq =
                          newVCRRequest(
                              SnapshotSource(f.request,
                                  IF HookRuns(RequestModifier[f.v], mode[f.v])
                                  THEN requestMod(f.request) ELSE f.request),
                              filterMap, order)])

\* RoundTrip: if v.ctx.Err() == context.Canceled
CheckContext(c) ==
    /\ At(c, "ctx")
    /\ LET f == Top(c)
       IN  IF ctx[f.v] = CtxNil THEN Return(c, State, Panic(NilDereference))
           ELSE IF ctx[f.v] = CtxCanceled
           THEN Return(c, State, Result("error", Stopped, NoDetail, NoResponse))
           ELSE Step(c, State, [f EXCEPT !.pc = "mode"])

\* RoundTrip: if v.mode == ModeStopped
CheckStopped(c) ==
    /\ At(c, "mode")
    /\ LET f == Top(c)
           me == callers[c]
       IN  Goes(State, c :> [me EXCEPT
                    !.mode = IF Len(me.stack) = 1 THEN mode[f.v] ELSE @,
                    !.stack = SetTop(@, [f EXCEPT !.pc = IF mode[f.v] = ModeStopped
                                                         THEN "pass" ELSE "hook"])])

\* v.originalTransport.RoundTrip(request) for the frame on top: a nil
\* transport panics, the real one answers with `net`, a session's
\* RoundTrip begins, whether that session is already on the stack or not.
\* Calls nested deeper than MaxDepth are not followed.
Call(c, net) ==
    LET me == callers[c]
        f == Top(c)
        t == originalTransport[f.v]
    IN  IF t = NoTransport
        THEN Arrive(c, State, me, <<>>, Panic(NilDereference), <<>>)
        ELSE IF t = RealTransport
        THEN Arrive(c, State, [me EXCEPT !.sent = Append(@, f.live)], me.stack,
                    RealResult(net), <<>>)
        ELSE /\ Len(me.stack) < MaxDepth
             /\ Goes(State, c :> [me EXCEPT !.stack = Append(@, Frame(t, f.live))])

\* RoundTrip: return v.originalTransport.RoundTrip(request)
PassThrough(c, net) ==
    /\ At(c, "pass")
    /\ Call(c, net)

\* RoundTrip: if v.RequestModifier != nil { v.RequestModifier(request) }
Hook(c) ==
    /\ At(c, "hook")
    /\ LET f == Top(c)
           hook == HookRuns(RequestModifier[f.v], mode[f.v])
       IN  Goes(State,
                c :> [callers[c] EXCEPT
                        !.hooked = IF hook THEN Append(@, f.request) ELSE @,
                        !.stack = SetTop(@,
                            [f EXCEPT !.pc = "record",
                                      !.live = IF hook THEN requestMod(f.request)
                                               ELSE f.request])])

\* RoundTrip: if v.mode == ModeRecord
CheckRecord(c) ==
    /\ At(c, "record")
    /\ LET f == Top(c)
           records == Records(mode[f.v])
       IN  Goes(IF records THEN State ELSE Played(State, f.v, f.request),
                c :> [callers[c] EXCEPT
                        !.mode = IF Len(callers[c].stack) = 1 THEN mode[f.v] ELSE @,
                        !.stack = SetTop(@,
                            [f EXCEPT !.pc = IF records THEN "call" ELSE "match",
                                      !.records = records])])

\* RoundTrip: response, err := v.originalTransport.RoundTrip(request), the
\* snapshot of the response and the episode
RealCall(c, net) ==
    /\ At(c, "call")
    /\ Call(c, net)

\* append(v.Cassette.Episodes, e): the slice is read ...
AppendRead(c) ==
    /\ At(c, "append")
    /\ Step(c, State, [Top(c) EXCEPT !.pc = "store", !.q = Episodes[Top(c).v]])

\* ... and v.Cassette.Episodes = the longer slice.
AppendStore(c) ==
    /\ At(c, "store")
    /\ Len(Top(c).q) < MaxEpisodes
    /\ LET f == Top(c)
       IN  Step(c, [State EXCEPT !.Episodes[f.v] = Append(f.q, f.e)],
                [f EXCEPT !.pc = "tail", !.q = <<>>])

\* MatchEpisode: if len(m.episodes) == 0
MatchLen(c) ==
    /\ At(c, "match")
    /\ LET f == Top(c)
           m == MatchEpisode(matcher[f.v], f.vcrReq)
       IN  IF Len(matcher[f.v]) = 0
           THEN Return(c, [State EXCEPT !.matcher[f.v] = m.episodes], Panic(m.panic))
           ELSE Step(c, State, [f EXCEPT !.pc = "first"])

\* MatchEpisode: e := m.episodes[0] and the comparison of the fields
MatchFirst(c) ==
    /\ At(c, "first")
    /\ LET f == Top(c)
           m == MatchEpisode(matcher[f.v], f.vcrReq)
       IN  IF Len(matcher[f.v]) = 0
           THEN Return(c, State, Panic(IndexOutOfRange))
           ELSE IF m.panic # ""
           THEN Return(c, [State EXCEPT !.matcher[f.v] = m.episodes],
                       Result("panic", m.panic, m.detail, NoResponse))
           ELSE Step(c, State, [f EXCEPT !.pc = "remove", !.e = m.episode])

\* MatchEpisode: m.episodes[1:] is read ...
MatchRemove(c) ==
    /\ At(c, "remove")
    /\ LET f == Top(c)
       IN  IF Len(matcher[f.v]) = 0
           THEN Return(c, State, Panic(SliceOutOfRange))
           ELSE Step(c, State,
                     [f EXCEPT !.pc = "drop",
                               !.q = Matched(f.e, Tail(matcher[f.v])).episodes])

\* ... and m.episodes = that slice.
MatchDrop(c) ==
    /\ At(c, "drop")
    /\ LET f == Top(c)
       IN  Step(c, [State EXCEPT !.matcher[f.v] = f.q,
                                 !.consumed[f.v] = IF @ >= 0 THEN @ + 1 ELSE @],
                [f EXCEPT !.pc = "tail", !.q = <<>>])

\* RoundTrip: if v.mode == ModeReplay, else the return of the response
\* built from the snapshot
Finish(c) ==
    /\ At(c, "tail")
    /\ LET f == Top(c)
       IN  IF mode[f.v] = ModeReplay
           THEN Step(c, State, [f EXCEPT !.pc = "len"])
           ELSE Return(c, State, Result("response", "", NoDetail,
                                        httpResponse(f.e.Response)))

\* RoundTrip: if len(v.Cassette.Episodes) == 0 the goroutine goes on to
\* v.Stop(), else it returns the response.
FinishLen(c) ==
    /\ At(c, "len")
    /\ LET f == Top(c)
       IN  IF ReplayFinished(Episodes[f.v], matcher[f.v])
           THEN Step(c, State, [f EXCEPT !.pc = "stop"])
           ELSE Return(c, State, Result("response", "", NoDetail,
                                        httpResponse(f.e.Response)))

\* What the program does in one step and no goroutine of the model is
\* inside: the observation, and the goroutines it ran between.
Did(op, v) ==
    /\ last' = IF Watching
               THEN Observed(op, v, mode[v], NoRequest, Ok, <<>>, <<>>, FALSE, Still)
               ELSE Nothing
    /\ callers' = Kept(Moved(<<>>))
    /\ serial' = Serial(Moved(<<>>))

\* v.FilterResponseBody(original, replacement), under v.mu, which no
\* RoundTrip takes: while a RoundTrip on v is in the loop of its snapshot
\* (newVCRRequest ranges over the map when the request has a body) the
\* runtime may end the process ("concurrent map iteration and map write")
\* or let the write pass.
FilterResponseBody(v, original, replacement) ==
    /\ callers[Holder(v)].pc = "idle"
    /\ \/ /\ FilterMap' = [FilterMap EXCEPT ![v] =
                              [o \in DOMAIN @ \cup {original} |->
                                  IF o = original THEN replacement ELSE @[o]]]
          /\ Did("FilterResponseBody", v)
       \/ \E c \in Callers :
             /\ At(c, "snapshot") /\ Top(c).v = v
             /\ ~Top(c).request.Body.isNil
             /\ UNCHANGED FilterMap
             /\ last' = Observed("RoundTrip", callers[c].stack[1].v, callers[c].mode,
                                 callers[c].stack[1].request,
                                 Result("fatal", ConcurrentMap, NoDetail, NoResponse),
                                 callers[c].sent, callers[c].hooked, callers[c].wrote,
                                 FALSE)
             /\ callers' = Kept(Moved(<<>>))
             /\ serial' = Serial(Moved(<<>>))
    /\ UNCHANGED <<mode, ctx, originalTransport, Episodes, matcher, RequestModifier,
                   options, DefaultTransport, files, dir, consumed, history, tape,
                   played>>

\* v.RequestModifier = requestMod, or nil
SetRequestModifier(v, set) ==
    /\ RequestModifier' = [RequestModifier EXCEPT ![v] = set]
    /\ Did("SetRequestModifier", v)
    /\ UNCHANGED <<mode, ctx, originalTransport, Episodes, matcher, FilterMap,
                   options, DefaultTransport, files, dir, consumed, history, tape,
                   played>>

\* The owner of the context given to Start cancels it.
CancelContext(v) ==
    /\ ctx[v] \in {CtxCancellable, CtxTimed}
    /\ ctx' = [ctx EXCEPT ![v] = CtxCanceled]
    /\ Did("CancelContext", v)
    /\ UNCHANGED <<mode, originalTransport, Episodes, matcher, FilterMap,
                   RequestModifier, options, DefaultTransport, files, dir, consumed,
                   history, tape, played>>

\* The deadline of the context given to Start passes.
DeadlinePasses(v) ==
    /\ ctx[v] = CtxTimed
    /\ ctx' = [ctx EXCEPT ![v] = CtxExpired]
    /\ Did("DeadlinePasses", v)
    /\ UNCHANGED <<mode, originalTransport, Episodes, matcher, FilterMap,
                   RequestModifier, options, DefaultTransport, files, dir, consumed,
                   history, tape, played>>

\* The test harness on the cassettes: os.RemoveAll("fixtures/vcr"),
\* os.MkdirAll of the cassette's path when it is free, os.MkdirAll of
\* fixtures/vcr and ioutil.WriteFile of bytes that are not JSON.
Environment(v, file) ==
    /\ \/ file = Absent /\ dir
       \/ file = Directory /\ files[v] = Absent
       \/ file = Garbage /\ files[v].kind \in {"absent", "json"}
    /\ files' = IF file = Absent THEN [w \in Sessions |-> Absent]
                ELSE [files EXCEPT ![v] = file]
    /\ dir' = (file # Absent)
    /\ Did("Environment", v)
    /\ UNCHANGED <<mode, ctx, originalTransport, Episodes, matcher, FilterMap,
                   RequestModifier, options, DefaultTransport, consumed, history,
                   tape, played>>

----------------------------------------------------------------------------
(* Specifications *)

\* New(cassetteName, opts...) for the session objects in S, each with its
\* HTTPDefaultOverride option (the other session objects keep the default
\* options and are never used); no cassette file exists yet.
InitOf(S, kept) ==
    /\ mode = [v \in Sessions |-> ModeStopped]
    /\ ctx = [v \in Sessions |-> CtxNil]
    /\ originalTransport = [v \in Sessions |-> NoTransport]
    /\ Episodes = [v \in Sessions |-> <<>>]
    /\ matcher = [v \in Sessions |-> <<>>]
    /\ FilterMap = [v \in Sessions |-> EmptyFilterMap]
    /\ RequestModifier = [v \in Sessions |-> FALSE]
    /\ options \in { o \in [Sessions -> BOOLEAN] : \A v \in Sessions \ S : o[v] }
    /\ DefaultTransport = RealTransport
    /\ files = [v \in Sessions |-> Absent]
    /\ dir = FALSE
    /\ consumed = [v \in Sessions |-> -1]
    /\ history = kept
    /\ tape = [v \in Sessions |-> <<>>]
    /\ played = [v \in Sessions |-> [same |-> TRUE, n |-> 0]]
    /\ serial = TRUE
    /\ callers = [g \in Goroutines |->
                    IF g \in Callers THEN IdleCaller ELSE IdleHolder(g)]
    /\ last = Observed("New", "a", ModeStopped, NoRequest, Ok, <<>>, <<>>, FALSE, TRUE)

\* The process is alive: a fatal error of the runtime ends it.
Alive == last.kind # "fatal"

\* The steps of Start and of Stop on the sessions S, Start with a context
\* of P.
Lifecycle(S, P) ==
    \E v \in S :
        \/ \E parent \in P : StartLock(v, parent)
        \/ StartRemember(v)
        \/ StartOverride(v)
        \/ StartChoose(v)
        \/ StartRead(v)
        \/ StartArg(v)
        \/ StartInit(v)
        \/ \E who \in Callers \cup {Holder(v)} : StopLock(v, who)
        \/ StopWrite(v)
        \/ StopRestore(v)
        \/ StopSwitch(v)
        \/ StopCancel(v)

\* The steps of RoundTrip for the goroutines G, which call the sessions S
\* with the requests R; the real transport answers with one of N.
Traffic(G, S, R, N) ==
    \E c \in G :
        \/ \E v \in S, request \in R : Enter(c, v, request)
        \/ TakeSnapshot(c)
        \/ CheckContext(c)
        \/ CheckStopped(c)
        \/ \E net \in N : PassThrough(c, net)
        \/ Hook(c)
        \/ CheckRecord(c)
        \/ \E net \in N : RealCall(c, net)
        \/ AppendRead(c)
        \/ AppendStore(c)
        \/ MatchLen(c)
        \/ MatchFirst(c)
        \/ MatchRemove(c)
        \/ MatchDrop(c)
        \/ Finish(c)
        \/ FinishLen(c)


\* What the real transport answers where one answer will do.
Answer == { [err |-> "", resp |-> LiveResponse("200 OK", 200, "HTTP/1.1", <<"x">>)] }

\* The real transport answers and never fails.
Replies == { [err |-> "", resp |-> r] : r \in Responses }

\* The request of the lifecycle specifications.
Get == { Req("GET", "/", NilBytes) }

\* One session object, used through its whole life by the program and by
\* one goroutine that calls it meanwhile: started, called, stopped and
\* started again, while the harness changes its cassette file.
Init == InitOf({"a"}, "calls")

Next ==
    /\ Alive
    /\ \/ Lifecycle({"a"}, {"background"})
       \/ Traffic({"c1"}, {"a"}, Get, Answer)
       \/ \E file \in {Absent, Directory, Garbage} : Environment("a", file)

Spec == Init /\ [][Next]_vars

\* The session's context: Start is given a context that cannot be
\* cancelled, one its owner may cancel, a cancelled one, one with a
\* deadline, or one whose deadline has passed.
InitCtx == InitOf({"a"}, "calls") /\ options["a"]

NextCtx ==
    /\ Alive
    /\ \/ Lifecycle({"a"}, Parents)
       \/ Traffic({"c1"}, {"a"}, Get, Answer)
       \/ CancelContext("a")
       \/ DeadlinePasses("a")

SpecCtx == InitCtx /\ [][NextCtx]_vars

\* The network: the real transport answers in one of two ways or fails.
InitNet == InitOf({"a"}, "calls") /\ options["a"]

NextNet ==
    /\ Alive
    /\ \/ Lifecycle({"a"}, {"background"})
       \/ Traffic({"c1"}, {"a"}, Get, NetOutcomes)

SpecNet == InitNet /\ [][NextNet]_vars

\* The round trip: the history of the calls answered while recording is
\* kept, and the harness may remove the cassette file.
InitTape == InitOf({"a"}, "tape") /\ options["a"]

NextTape ==
    /\ Alive
    /\ \/ Lifecycle({"a"}, {"background"})
       \/ Traffic({"c1"}, {"a"}, Get, Replies)
       \/ Environment("a", Absent)

SpecTape == InitTape /\ [][NextTape]_vars

\* The matcher at work: while no cassette file exists the caller issues
\* the request of Recorded, afterwards any of Requests.
InitMatch == InitOf({"a"}, "calls") /\ options["a"]

NextMatch ==
    /\ Alive
    /\ \/ Lifecycle({"a"}, {"background"})
       \/ Traffic({"c1"}, {"a"}, IF files["a"] = Absent THEN Recorded ELSE Requests, Answer)

SpecMatch == InitMatch /\ [][NextMatch]_vars

\* Two session objects in one process, each with its own cassette and each
\* installing itself as http.DefaultTransport, started and stopped in any
\* order; the goroutine calls through the default client when session "b"
\* is installed. The behaviour keeps no history of its calls, and no cassette
\* grows beyond MaxEpisodesTwo episodes.
InitTwo == InitOf(Sessions, "none") /\ \A v \in Sessions : options[v]

NextTwo ==
    /\ Alive
    /\ \/ Lifecycle(Sessions, {"background"})
       \/ Traffic({"c1"}, {DefaultTransport} \cap {"b"}, Get, Answer)
    /\ \A v \in Sessions : Len(Episodes'[v]) <= MaxEpisodesTwo

SpecTwo == InitTwo /\ [][NextTwo]_vars

\* The request whose body is exactly the secret.
Secret == Req("POST", "/", Bytes(FilterOriginal))

\* The test server answers with the request's body between quotes.
Echo(request) ==
    [err |-> "",
     resp |-> LiveResponse("200 OK", 200, "HTTP/1.1",
                           <<"q">> \o request.Body.bytes \o <<"q">>)]

\* The filter at work: FilterResponseBody is called on the new session
\* before its first Start, as TestVCR does; the server answers with a fixed
\* body or echoes the request's.
InitFilter == InitOf({"a"}, "calls") /\ options["a"]

NextFilter ==
    /\ Alive
    /\ \/ Lifecycle({"a"}, {"background"})
       \/ Traffic({"c1"}, {"a"}, {Secret}, Answer \cup {Echo(Secret)})
       \/ ctx["a"] = CtxNil /\ FilterResponseBody("a", FilterOriginal, FilterReplacement)

SpecFilter == InitFilter /\ [][NextFilter]_vars

\* A request the hook rewrites, whose body holds what the hook rewrites and
\* what the filter rewrites.
Modded == Req("POST", ModURL, Bytes(ModFrom \o FilterOriginal))

\* The request hook at work: the program sets v.RequestModifier to
\* requestMod or to nil, may set the filter before the first Start, and
\* starts the session with a live context, with a cancelled one or with
\* one whose deadline has passed.
InitHook == InitOf({"a"}, "calls") /\ options["a"]

NextHook ==
    /\ Alive
    /\ \/ Lifecycle({"a"}, {"background", "canceled", "expired"})
       \/ Traffic({"c1"}, {"a"}, {Modded}, Answer)
       \/ \E set \in BOOLEAN : SetRequestModifier("a", set)
       \/ ctx["a"] = CtxNil /\ FilterResponseBody("a", FilterOriginal, FilterReplacement)

SpecHook == InitHook /\ [][NextHook]_vars

\* Two goroutines call one session at once while the program starts and
\* stops it.
InitRace == InitOf({"a"}, "calls") /\ options["a"]

NextRace ==
    /\ Alive
    /\ \/ Lifecycle({"a"}, {"background"})
       \/ Traffic(Callers, {"a"}, Get, Answer)

SpecRace == InitRace /\ [][NextRace]_vars

----------------------------------------------------------------------------
(* Claims.  A claim about what one operation does is stated of the         *)
(* statement that does it, or of the operation's return when no other      *)
(* goroutine ran while it was under way (`alone`); what goroutines do to   *)
(* one another is the matter of the claims under SpecRace.                 *)

\* The session the operation that has just returned was called on.
Subject == last.v

\* The outermost session goroutine c is calling.
Session(c) == callers[c].stack[1].v

\* The snapshot RoundTrip takes of a request on session v.
Snapshot(request, v) ==
    newVCRRequest(request, FilterMap[v], CHOOSE o \in Orders(FilterMap[v]) : TRUE)

\* The first of Method, URL, Body in which two snapshots differ.
FirstDifference(x, y) ==
    IF x.Method # y.Method THEN "Method"
    ELSE IF x.URL # y.URL THEN "URL"
    ELSE "Body"

\* The text a mismatch prints for a field of a snapshot.
FieldText(x, field) ==
    CASE field = "Method" -> x.Method
      [] field = "URL" -> x.URL
      [] field = "Body" -> x.Body.bytes

\* Status, status code, headers, content length and body agree.
SameResponse(r1, r2) ==
    /\ r1.Status = r2.Status
    /\ r1.StatusCode = r2.StatusCode
    /\ r1.Header = r2.Header
    /\ r1.ContentLength = r2.ContentLength
    /\ r1.Body.bytes = r2.Body.bytes

\* What RoundTrip, Start and Stop leave alone when they only look.
Session_Unchanged ==
    UNCHANGED <<matcher, Episodes, files, mode, ctx, consumed, DefaultTransport,
                originalTransport>>

----------------------------------------------------------------------------
(* One session's life (Spec) *)

\* C1: the statement of Start that assigns the mode enters ModeReplay
\* exactly when something occupies the cassette's path at that moment
\* (os.Stat succeeds) and ModeRecord otherwise; the mode is always one of
\* the three modes; a session leaves ModeStopped only in that statement,
\* of a Start that found it stopped.
C1_StartChoosesMode ==
    [][\A v \in Sessions :
          /\ mode'[v] \in Modes
          /\ StartChoose(v)
                => /\ (mode'[v] = ModeReplay) <=> (files[v].kind # "absent")
                   /\ (mode'[v] = ModeRecord) <=> (files[v].kind = "absent")
          /\ (mode[v] = ModeStopped /\ mode'[v] # ModeStopped)
                => (StartChoose(v) /\ callers[Holder(v)].mode = ModeStopped)]_vars

\* A Start on a stopped session found the cassette and entered ModeReplay.
C1_Witness ==
    /\ last.op = "Start" /\ last.mode = ModeStopped /\ last.kind = "ok"
    /\ mode[Subject] = ModeReplay
    /\ files[Subject].kind = "json"

\* C7: a Start that finds the session recording or replaying panics with
\* "session already started" and leaves the mode, the remembered transport,
\* the installed transport, the episodes, the queue, the context and the
\* cassette file as they were.
C7_StartTwiceChangesNothing ==
    [][\A v \in Sessions, parent \in Parents :
          (StartLock(v, parent) /\ mode[v] # ModeStopped)
              => /\ last'.op = "Start" /\ last'.v = v
                 /\ last'.kind = "panic" /\ last'.msg = AlreadyStarted
                 /\ ~Busy(Holder(v))'
                 /\ UNCHANGED <<mode, ctx, originalTransport, DefaultTransport,
                                Episodes, matcher, files>>]_vars

\* A Start was refused on a replaying session with episodes in its queue.
C7_Witness ==
    /\ last.op = "Start" /\ last.mode = ModeReplay
    /\ last.msg = AlreadyStarted
    /\ mode[Subject] = ModeReplay /\ matcher[Subject] # <<>>

\* C9 as claimed: every Stop that found the session active returns with
\* the session stopped and http.DefaultTransport back to the transport
\* Start remembered.
C9_StopAlwaysRestores ==
    [][\A v \in Sessions :
          (last'.op = "Stop" /\ last'.v = v /\ last'.mode # ModeStopped /\ last'.alone)
              => /\ mode'[v] = ModeStopped
                 /\ options[v] => DefaultTransport' = originalTransport[v]]_vars

\* C10: the cassette file is written only by the WriteFile of a Stop that
\* found the session recording, which writes the episodes as that Stop
\* marshalled them; a Stop goes to write only when it finds the session
\* recording, and writes once; a session leaves ModeRecord only in a Stop
\* that has written, which stops it; no statement of RoundTrip or Start
\* and no Stop on a replaying or stopped session changes the file.
C10_WrittenOnceByStop ==
    [][\A v \in Sessions :
          /\ (files'[v] # files[v])
                => \/ last'.op = "Environment"
                   \/ /\ StopWrite(v)
                      /\ mode[v] = ModeRecord /\ callers[Holder(v)].mode = ModeRecord
                      /\ files'[v] = JsonFile(callers[Holder(v)].jsonData)
                      /\ callers'[Holder(v)].wrote
          /\ \A who \in Callers \cup {Holder(v)} :
                (StopLock(v, who) /\ callers'[Holder(v)].pc = "write")
                    => /\ mode[v] = ModeRecord
                       /\ callers'[Holder(v)].jsonData = Marshal(Episodes[v])
          /\ (StopWrite(v) /\ callers'[Holder(v)].wrote)
                => (mode[v] = ModeRecord /\ ~callers[Holder(v)].wrote)
          /\ (mode[v] = ModeRecord /\ mode'[v] # ModeRecord)
                => (StopSwitch(v) /\ callers[Holder(v)].wrote /\ mode'[v] = ModeStopped)]_vars

\* A Stop persisted a recording session's episodes.
C10_Witness ==
    /\ last.op = "Stop" /\ last.wrote /\ last.mode = ModeRecord
    /\ files[Subject].kind = "json" /\ Len(files[Subject].doc) >= 1

\* C11 as claimed: with a directory at the cassette's path, a Start on a
\* stopped session does not fail, and a Stop on the active session panics
\* with "cannot write cassette file!".
C11_DirectoryFailsAtStopOnly ==
    [][\A v \in Sessions :
          (last'.v = v /\ files[v] = Directory /\ last'.alone)
              => /\ (last'.op = "Start" /\ last'.mode = ModeStopped)
                       => last'.kind = "ok"
                 /\ (last'.op = "Stop" /\ last'.mode # ModeStopped)
                       => (last'.kind = "panic" /\ last'.msg = CannotWrite)]_vars

\* C22: the last statement of a Start that loads the cassette, no other
\* goroutine having run since the Start began, leaves Cassette.Episodes and
\* the matcher's queue holding all the episodes of the document, whatever
\* the queue held from earlier sessions, the session replaying; and while
\* a session replays, its cassette file changes only from outside.
C22_StartReloadsQueue ==
    [][\A v \in Sessions :
          /\ (StartInit(v) /\ callers[Holder(v)].alone)
                => /\ last'.op = "Start" /\ last'.kind = "ok"
                   /\ mode'[v] = ModeReplay
                   /\ files[v].kind = "json"
                   /\ matcher'[v] = Unmarshal(files[v].doc)
                   /\ Episodes'[v] = Unmarshal(files[v].doc)
                   /\ Len(matcher'[v]) = Len(files[v].doc)
                   /\ files'[v] = files[v]
          /\ (mode[v] = ModeReplay /\ files'[v] # files[v])
                => last'.op = "Environment"]_vars

\* A Start entered ModeReplay with the whole cassette of two episodes in
\* the queue, of which an earlier session had left none.
C22_Witness ==
    /\ last.op = "Start" /\ last.kind = "ok" /\ last.mode = ModeStopped /\ last.alone
    /\ mode[Subject] = ModeReplay /\ consumed[Subject] = 0
    /\ Len(matcher[Subject]) = 2
    /\ matcher[Subject] = Unmarshal(files[Subject].doc)

\* C24: the statement of Start that reads a cassette file that does not
\* parse panics with "cannot parse json!" and changes nothing: the session
\* stays in ModeReplay, installed as http.DefaultTransport when it
\* overrides the default and it alone ran; on a replaying session a Start
\* panics with "session already started", and a Stop writes nothing, stops
\* the session and puts the transport back that Start had found.
C24_FailedStartStaysReplaying ==
    [][\A v \in Sessions :
          /\ (StartRead(v) /\ ReadFails(files[v]))
                => /\ last'.op = "Start" /\ last'.v = v
                   /\ last'.kind = "panic" /\ last'.msg = CannotParse
                   /\ mode'[v] = ModeReplay
                   /\ (options[v] /\ callers[Holder(v)].alone) => DefaultTransport' = v
                   /\ Session_Unchanged
          /\ mode[v] = ModeReplay
                => /\ \A parent \in Parents :
                         StartLock(v, parent)
                            => /\ last'.kind = "panic" /\ last'.msg = AlreadyStarted
                               /\ mode'[v] = ModeReplay
                   /\ StopLock(v, Holder(v))
                         => /\ callers'[Holder(v)].pc = "restore" /\ ~callers'[Holder(v)].wrote
                            /\ files'[v] = files[v]
          /\ (StopRestore(v) /\ options[v] /\ originalTransport[v] # NoTransport)
                => DefaultTransport' = originalTransport[v]
          /\ StopSwitch(v) => mode'[v] = ModeStopped]_vars

\* A Start has just failed on a malformed cassette file and left the
\* session replaying and installed.
C24_Witness ==
    /\ last.op = "Start" /\ last.kind = "panic" /\ last.msg = CannotParse
    /\ files[Subject] = Garbage
    /\ mode[Subject] = ModeReplay /\ options[Subject]
    /\ DefaultTransport = Subject

----------------------------------------------------------------------------
(* The session's context (SpecCtx) *)

\* C5 as claimed: a RoundTrip that finds the session replaying with an
\* empty queue (every episode matched, or none loaded), no other goroutine
\* running meanwhile, panics with "no more episodes" without calling the
\* real transport, whatever else holds; and a RoundTrip that replays leaves
\* the session replaying.
C5_ExhaustedAsClaimed ==
    [][\A v \in Sessions :
          (last'.op = "RoundTrip" /\ last'.v = v /\ last'.alone /\ last'.mode = ModeReplay)
              => /\ mode'[v] = ModeReplay
                 /\ last'.sent = <<>>
                 /\ (matcher[v] = <<>> /\ last'.kind # "response")
                       => (last'.kind = "panic" /\ last'.msg = NoMoreEpisodes)]_vars

\* C5 amended: the same, unless the session's context has been cancelled;
\* a session whose context is cancelled answers with the "stopped" error.
C5_Exhausted ==
    [][\A v \in Sessions :
          (last'.op = "RoundTrip" /\ last'.v = v /\ last'.alone /\ last'.mode = ModeReplay)
              => /\ mode'[v] = ModeReplay
                 /\ last'.sent = <<>>
                 /\ (matcher[v] = <<>> /\ last'.kind # "response" /\ ctx[v] # CtxCanceled)
                       => (last'.kind = "panic" /\ last'.msg = NoMoreEpisodes)
                 /\ ctx[v] = CtxCanceled
                       => (last'.kind = "error" /\ last'.msg = Stopped)]_vars

\* Every episode of a replay session was matched and the next call
\* panicked with "no more episodes", the session still replaying.
C5_Witness ==
    /\ last.op = "RoundTrip" /\ last.mode = ModeReplay /\ last.alone
    /\ last.kind = "panic" /\ last.msg = NoMoreEpisodes
    /\ consumed[Subject] = Len(Episodes[Subject]) /\ consumed[Subject] >= 1
    /\ mode[Subject] = ModeReplay

\* C14 as claimed: a RoundTrip that finds the session in ModeStopped,
\* started before or not, no other goroutine running meanwhile, hands the
\* request to the real transport and returns what it answers, and leaves
\* the episodes and the queue alone.
C14_StoppedPassesThrough ==
    [][\A v \in Sessions :
          (last'.op = "RoundTrip" /\ last'.v = v /\ last'.alone /\ last'.mode = ModeStopped)
              => /\ last'.sent = <<last'.request>>
                 /\ last'.kind \in {"response", "error"}
                 /\ last'.msg \in {"", NetworkError}
                 /\ UNCHANGED <<Episodes, matcher>>]_vars

\* C15 as claimed: the last statement of Stop leaves the session's done
\* signal raised; a RoundTrip that checks the context of a session that was
\* started and is stopped, no Start or Stop of it under way, returns the
\* "stopped" error without calling a transport; and the done signal is
\* raised only by that statement of Stop or through the context given to
\* Start: its owner cancels it, its deadline passes, or it was given
\* cancelled or past its deadline.
C15_StoppedSessionRefuses ==
    [][\A v \in Sessions :
          /\ StopCancel(v)
                => (mode[v] = ModeStopped /\ ctx'[v] \in {CtxCanceled, CtxExpired})
          /\ \A c \in Callers :
                ( /\ CheckContext(c) /\ Top(c).v = v
                  /\ mode[v] = ModeStopped /\ ctx[v] # CtxNil /\ ~Busy(Holder(v)) )
                    => /\ last'.op = "RoundTrip"
                       /\ last'.kind = "error" /\ last'.msg = Stopped
                       /\ last'.sent = <<>>
                       /\ Session_Unchanged
          /\ (ctx'[v] \in {CtxCanceled, CtxExpired} /\ ctx[v] \notin {CtxCanceled, CtxExpired})
                => \/ StopCancel(v) \/ CancelContext(v) \/ DeadlinePasses(v)
                   \/ StartLock(v, "canceled") \/ StartLock(v, "expired")]_vars

----------------------------------------------------------------------------
(* The network (SpecNet) *)

\* C3: a RoundTrip that finds the session replaying calls no transport,
\* and the response it returns is built from the episode that was first
\* in the queue, a snapshot of a response recorded earlier.
C3_ReplayNeverCallsRealTransport ==
    [][\A c \in Callers :
          /\ (Busy(c) /\ callers[c].mode = ModeReplay /\ Busy(c)' /\ ~At(c, "mode"))
                => callers'[c].sent = <<>>
          /\ (last'.op = "RoundTrip" /\ last'.mode = ModeReplay)
                => last'.sent = <<>>
          /\ (MatchFirst(c) /\ Busy(c)')
                => /\ matcher[Session(c)] # <<>>
                   /\ callers'[c].stack[1].e = Head(matcher[Session(c)])
          /\ (Busy(c) /\ ~Busy(c)' /\ last'.mode = ModeReplay /\ last'.kind = "response")
                => /\ last'.resp = httpResponse(callers[c].stack[1].e.Response)
                   /\ last'.resp.Proto = "HTTP/1.0"]_vars

\* A replaying session answered a call.
C3_Witness ==
    /\ last.op = "RoundTrip" /\ last.mode = ModeReplay /\ last.kind = "response"
    /\ last.sent = <<>>
    /\ mode[Subject] = ModeReplay

\* C4: a match made while no other goroutine runs takes the first episode
\* of the queue and removes exactly that one; when the queue was what is
\* left of the cassette after the first `consumed` episodes, it is so
\* after the match too and the episode taken is the next of the cassette;
\* the call returns the response of the episode it took.
C4_MatchingIsPositional ==
    [][\A c \in Callers :
          /\ (MatchDrop(c) /\ callers[c].alone)
                => LET v == Session(c)
                       k == consumed[v]
                   IN  /\ matcher[v] # <<>>
                       /\ Top(c).e = Head(matcher[v])
                       /\ matcher'[v] = Tail(matcher[v])
                       /\ (k >= 0 /\ matcher[v] = SubSeq(Episodes[v], k + 1, Len(Episodes[v])))
                             => /\ consumed'[v] = k + 1
                                /\ Top(c).e = Episodes[v][k + 1]
                                /\ matcher'[v] = SubSeq(Episodes'[v], k + 2, Len(Episodes'[v]))
          /\ ((Finish(c) \/ FinishLen(c)) /\ ~Busy(c)')
                => last'.resp = httpResponse(Top(c).e.Response)]_vars

\* The second call of a replay session got the second episode, which
\* differs from the first.
C4_Witness ==
    /\ last.op = "RoundTrip" /\ last.mode = ModeReplay /\ last.kind = "response"
    /\ last.alone
    /\ consumed[Subject] = 2
    /\ Episodes[Subject][1] # Episodes[Subject][2]
    /\ last.resp = httpResponse(Episodes[Subject][2].Response)

\* C12: a RoundTrip on a recording session whose call of the real
\* transport fails returns that error and no response, and leaves the
\* episodes, the queue, the mode and the cassette file as they were.
C12_NetworkErrorNotRecorded ==
    [][\A c \in Callers, net \in { n \in NetOutcomes : n.err # "" } :
          (RealCall(c, net) /\ originalTransport[Session(c)] = RealTransport)
              => /\ ~Busy(c)'
                 /\ last'.op = "RoundTrip"
                 /\ last'.kind = "error" /\ last'.msg = net.err
                 /\ last'.resp = NoResponse
                 /\ last'.sent = <<last'.request>>
                 /\ Session_Unchanged]_vars

\* A call failed in the network on a recording session that already holds
\* an episode.
C12_Witness ==
    /\ last.op = "RoundTrip" /\ last.mode = ModeRecord
    /\ last.kind = "error" /\ last.msg = NetworkError
    /\ mode[Subject] = ModeRecord /\ Len(Episodes[Subject]) >= 1

----------------------------------------------------------------------------
(* The round trip and what a recording session persists (SpecTape) *)

\* C2 as claimed: the operations running one after the other, in a replay
\* session that loaded the cassette and whose context is live, while the
\* calls repeat the calls answered in the recording session that persisted
\* the cassette, call k gets a response equal to the one call k got while
\* recording.
C2_RoundTripAsClaimed ==
    [][\A v \in Sessions :
          ( /\ last'.op = "RoundTrip" /\ last'.v = v /\ serial'
            /\ last'.mode = ModeReplay
            /\ consumed[v] >= 0 /\ ctx[v] # CtxCanceled
            /\ played[v].same /\ played[v].n >= 1 )
              => /\ last'.kind = "response"
                 /\ SameResponse(last'.resp, tape[v][played[v].n].resp)]_vars

\* C13 as claimed: the operations running one after the other, a RoundTrip
\* answered on a recording session appends one episode, the snapshot of
\* that call, to the end of Cassette.Episodes; and the document a Stop
\* writes holds the calls answered in that recording session, one episode
\* each, in their order, and nothing else.
C13_OneEpisodePerCall ==
    [][\A v \in Sessions :
          /\ \A c \in Callers :
                (AppendStore(c) /\ Session(c) = v /\ serial)
                    => /\ Len(Episodes'[v]) = Len(Episodes[v]) + 1
                       /\ SubSeq(Episodes'[v], 1, Len(Episodes[v])) = Episodes[v]
                       /\ Episodes'[v][Len(Episodes'[v])].Request
                             = Snapshot(Top(c).request, v)
          /\ (StopWrite(v) /\ callers'[Holder(v)].wrote /\ serial')
                => /\ Len(files'[v].doc) = Len(tape[v])
                   /\ \A i \in 1..Len(tape[v]) :
                         i <= Len(files'[v].doc)
                            => LET e == DecodeEpisode(files'[v].doc[i])
                               IN  /\ e.Request = Snapshot(tape[v][i].req, v)
                                   /\ httpResponse(e.Response) = tape[v][i].resp]_vars

\* C20 as claimed: the operations running one after the other, a Start that
\* enters ModeRecord leaves Cassette.Episodes empty, whatever the session
\* object did before; and Cassette.Episodes changes only in the load of the
\* cassette and in the append of a RoundTrip on a recording session.
C20_RecordingStartsEmpty ==
    [][\A v \in Sessions :
          /\ (StartChoose(v) /\ serial' /\ mode'[v] = ModeRecord)
                => Episodes'[v] = <<>>
          /\ (Episodes'[v] # Episodes[v] /\ serial')
                => \/ StartRead(v)
                   \/ \E c \in Callers :
                         AppendStore(c) /\ Session(c) = v /\ mode[v] = ModeRecord]_vars

----------------------------------------------------------------------------
(* The matcher's diagnostics and failed matches (SpecMatch) *)

\* C6: the comparison of a call, made while no other goroutine runs, with
\* the next expected request: when the snapshot differs, the call panics
\* with a mismatch that names the first of Method, URL, Body that differs,
\* gives the recorded value as expected and the incoming one as actual,
\* and names the incoming method and URL; when it is equal, the call goes
\* on with that episode.
C6_MismatchNamesFirstDifference ==
    [][\A c \in Callers :
          (MatchFirst(c) /\ callers[c].alone /\ matcher[Session(c)] # <<>>)
              => LET v == Session(c)
                     expected == Head(matcher[v]).Request
                     actual == Snapshot(Top(c).request, v)
                     field == FirstDifference(expected, actual)
                 IN  IF expected = actual
                     THEN /\ Busy(c)'
                          /\ callers'[c].stack[1].pc = "remove"
                          /\ callers'[c].stack[1].e = Head(matcher[v])
                     ELSE /\ ~Busy(c)'
                          /\ last'.op = "RoundTrip" /\ last'.request = Top(c).request
                          /\ last'.kind = "panic" /\ last'.msg = EpisodeMismatch
                          /\ last'.detail.field = field
                          /\ last'.detail.expected = FieldText(expected, field)
                          /\ last'.detail.actual = FieldText(actual, field)
                          /\ last'.detail.method = actual.Method
                          /\ last'.detail.url = actual.URL]_vars

\* A call that differs from the recorded one in the method, the URL and
\* the body was refused for its method.
C6_Witness ==
    /\ last.op = "RoundTrip" /\ last.mode = ModeReplay /\ last.alone
    /\ last.msg = EpisodeMismatch /\ last.detail.field = "Method"
    /\ matcher[Subject] # <<>>
    /\ Head(matcher[Subject]).Request.URL # Snapshot(last.request, Subject).URL
    /\ Head(matcher[Subject]).Request.Body # Snapshot(last.request, Subject).Body

\* C21: a RoundTrip that panics with a mismatch or with "no more episodes"
\* leaves the queue, the episodes, the cassette file, the mode, the context
\* and the transports as they were, as do its statements before; and a
\* call that equals the next expected request, made while no other
\* goroutine runs, takes that episode, which leaves the queue.
C21_FailedMatchChangesNothing ==
    [][\A c \in Callers :
          /\ (last'.op = "RoundTrip" /\ last'.kind = "panic"
                  /\ last'.msg \in {EpisodeMismatch, NoMoreEpisodes})
                => Session_Unchanged
          /\ (CheckContext(c) \/ CheckStopped(c) \/ Hook(c) \/ CheckRecord(c) \/ MatchLen(c)
                  \/ MatchFirst(c))
                => Session_Unchanged
          /\ (Busy(c) /\ callers[c].alone /\ mode[Session(c)] = ModeReplay)
                => LET v == Session(c)
                   IN  /\ (MatchFirst(c) /\ matcher[v] # <<>>
                              /\ Snapshot(Top(c).request, v) = Head(matcher[v]).Request)
                            => Busy(c)' /\ callers'[c].stack[1].e = Head(matcher[v])
                       /\ MatchDrop(c)
                            => (matcher'[v] = Tail(matcher[v]) /\ mode'[v] = ModeReplay)]_vars

\* A call was refused for a mismatch while two episodes are still expected.
C21_Witness ==
    /\ last.op = "RoundTrip" /\ last.mode = ModeReplay
    /\ last.kind = "panic" /\ last.msg = EpisodeMismatch
    /\ mode[Subject] = ModeReplay /\ Len(matcher[Subject]) = 2
    /\ consumed[Subject] = 0

----------------------------------------------------------------------------
(* Several sessions in one process (SpecTwo) *)

\* C8 as claimed: no two sessions that install themselves as
\* http.DefaultTransport are active at once.
C8_OneActiveSession ==
    Cardinality({ v \in Sessions : mode[v] # ModeStopped /\ options[v] }) <= 1

----------------------------------------------------------------------------
(* The filter (SpecFilter) *)

\* C16 as claimed: on a session whose filter map replaces FilterOriginal
\* since before its first Start, a call whose body is exactly FilterOriginal
\* reaches the real transport unfiltered and is recorded with the body
\* FilterReplacement, and no request body and no response body of the
\* cassette file a Stop has written contains FilterOriginal.
C16_SecretNeverPersisted ==
    \A v \in Sessions :
        FilterOriginal \in DOMAIN FilterMap[v]
            => /\ ( /\ last.op = "RoundTrip" /\ last.v = v /\ last.alone
                    /\ last.mode = ModeRecord /\ last.kind = "response"
                    /\ last.request.Body = Bytes(FilterOriginal) )
                     => /\ last.sent = <<last.request>>
                        /\ Episodes[v][Len(Episodes[v])].Request.Body
                              = Bytes(FilterReplacement)
               /\ ( /\ last.op = "Stop" /\ last.v = v /\ last.alone /\ last.wrote
                    /\ files[v].kind = "json" )
                     => \A i \in 1..Len(files[v].doc) :
                           LET e == DecodeEpisode(files[v].doc[i])
                           IN  /\ Count(e.Request.Body.bytes, FilterOriginal) = 0
                               /\ Count(e.Response.Body.bytes, FilterOriginal) = 0

----------------------------------------------------------------------------
(* The request hook and the snapshot (SpecHook) *)

\* C17 as claimed: a RoundTrip on a recording or replaying session with a
\* request hook, no other goroutine running meanwhile, runs the hook once,
\* on the caller's request; while recording the real transport gets the
\* request as the hook left it, while replaying nothing is sent.
C17_HookRunsOnceAsClaimed ==
    [][\A v \in Sessions :
          ( /\ last'.op = "RoundTrip" /\ last'.v = v /\ last'.alone
            /\ RequestModifier[v] /\ last'.mode \in {ModeRecord, ModeReplay} )
              => /\ last'.hooked = <<last'.request>>
                 /\ last'.mode = ModeRecord => last'.sent = <<requestMod(last'.request)>>
                 /\ last'.mode = ModeReplay => last'.sent = <<>>]_vars

\* C17 amended: the same on a session whose context is not cancelled; on a
\* session whose context is cancelled, and on one without hook, no hook
\* runs, and with a cancelled context nothing is sent.
C17_HookRunsOnce ==
    [][\A v \in Sessions :
          ( /\ last'.op = "RoundTrip" /\ last'.v = v /\ last'.alone
            /\ last'.mode \in {ModeRecord, ModeReplay} )
              => /\ (RequestModifier[v] /\ ctx[v] # CtxCanceled)
                       => /\ last'.hooked = <<last'.request>>
                          /\ last'.mode = ModeRecord
                                => last'.sent = <<requestMod(last'.request)>>
                          /\ last'.mode = ModeReplay => last'.sent = <<>>
                 /\ (~RequestModifier[v] \/ ctx[v] = CtxCanceled) => last'.hooked = <<>>
                 /\ ctx[v] = CtxCanceled => last'.sent = <<>>]_vars

\* A replaying session ran the hook on a request the hook rewrites and
\* answered the call.
C17_Witness ==
    /\ last.op = "RoundTrip" /\ last.mode = ModeReplay /\ last.kind = "response"
    /\ last.alone
    /\ last.hooked = <<last.request>>
    /\ requestMod(last.request) # last.request

\* C23: on a session with a request hook, no other goroutine running
\* meanwhile: RoundTrip's first statement takes the snapshot of the request
\* as the caller passed it, filtered; the episode a recording RoundTrip
\* appends carries the method, the URL and the filtered body of the request
\* as the caller passed it, while the real transport got the request as the
\* hook left it; a replaying RoundTrip goes on exactly when that same
\* snapshot of the caller's request equals the next expected request, and a
\* mismatch reports the snapshot's method, URL and value.
C23_SnapshotBeforeHook ==
    [][\A c \in Callers :
          (Busy(c) /\ callers[c].alone /\ RequestModifier[Session(c)])
              => LET v == Session(c)
                     actual == Snapshot(Top(c).request, v)
                 IN  /\ TakeSnapshot(c) => callers'[c].stack[1].vcrReq = actual
                     /\ AppendStore(c)
                           => /\ Episodes'[v] = Append(Episodes[v], Top(c).e)
                              /\ Top(c).e.Request = actual
                              /\ callers[c].sent = <<requestMod(Top(c).request)>>
                     /\ (MatchFirst(c) /\ matcher[v] # <<>>)
                           => LET expected == Head(matcher[v]).Request
                                  field == FirstDifference(expected, actual)
                              IN  /\ Busy(c)' <=> (expected = actual)
                                  /\ ~Busy(c)'
                                        => /\ last'.msg = EpisodeMismatch
                                           /\ last'.detail.method = actual.Method
                                           /\ last'.detail.url = actual.URL
                                           /\ last'.detail.actual
                                                 = FieldText(actual, field)]_vars

\* A recording session sent a request the hook had rewritten and recorded
\* the caller's request, filtered.
C23_Witness ==
    /\ last.op = "RoundTrip" /\ last.mode = ModeRecord /\ last.kind = "response"
    /\ last.alone
    /\ RequestModifier[Subject]
    /\ last.request.Body = Bytes(ModFrom \o FilterOriginal)
    /\ last.sent = <<[last.request EXCEPT !.Body = Bytes(ModTo \o FilterOriginal)]>>
    /\ Len(Episodes[Subject]) >= 1
    /\ Episodes[Subject][Len(Episodes[Subject])].Request.Body
          = Bytes(ModFrom \o FilterReplacement)

----------------------------------------------------------------------------
(* Goroutines calling one session at once (SpecRace) *)

\* C18 as claimed: on a replaying session that has loaded its queue, no
\* Start or Stop under way, every match that succeeds while episodes are
\* left removes exactly one episode, the head of the queue at that moment,
\* and that head is the episode the caller is answered with; so no episode
\* goes to two callers and k matches remove k episodes.
C18_MatchIsCriticalSection ==
    [][\A v \in Sessions :
          ( /\ consumed[v] >= 0 /\ consumed'[v] = consumed[v] + 1
            /\ ~Busy(Holder(v)) /\ matcher[v] # <<>> )
              => /\ matcher'[v] = Tail(matcher[v])
                 /\ \E c \in Callers :
                       /\ At(c, "drop") /\ MatchDrop(c)
                       /\ Top(c).e = Head(matcher[v])]_vars

\* C19 as claimed: every append of a recording RoundTrip leaves the
\* episodes that were there and adds its own at the end, so that none is
\* lost; and no RoundTrip finds the session stopped with a live context,
\* the state the session is in only in the middle of Start and of Stop.
C19_NoEpisodeLost ==
    [][\A c \in Callers :
          /\ AppendStore(c)
                => Episodes'[Session(c)] = Append(Episodes[Session(c)], Top(c).e)
          /\ ~At(c, "pass")]_vars

====
